---- MODULE Spec2Model ----
(***************************************************************************)
(* State-machine model of src/server.js: the session registry, the player *)
(* state store, the packet dispatcher, the disconnect teardown and the     *)
(* parent (cluster) connection of one node.                                *)
(*                                                                         *)
(* Every Node event handler runs to completion, so each handler is one     *)
(* atomic action.  An exception that escapes a handler is an uncaught      *)
(* exception of the process: the node stops, which the model records in    *)
(* `fault` (no action is enabled afterwards).                              *)
(*                                                                         *)
(* Strings are sequences of bytes (ASCII); absent JavaScript properties    *)
(* are the empty tuple and present ones a one-element tuple.               *)
(***************************************************************************)
EXTENDS Integers, Sequences, FiniteSets, TLC

\* ------------------------------------------------------------------ bounds
\* Socket objects that can be live at once (slots 1..MaxConn).
MaxConn == 3
\* Connections accepted in one run of every specification but SpecSend and
\* SpecWrap.
ConnectCap == 2
\* Records the Player State Store may hold before identity packets stop.
MaxStore == 2
\* The per-socket packet counters saturate here.
CountCap == 3

\* ------------------------------------------------------- program constants
serverNet ==
    [assign |-> 1, message |-> 2, miscData |-> 3, pos |-> 4, myRoom |-> 5,
     outfit |-> 6, name |-> 7, leave |-> 8, playerObj |-> 9, heartbeat |-> 10]

clientNet ==
    [ID |-> 20, pos |-> 21, myRoom |-> 22, outfit |-> 23, name |-> 24,
     message |-> 25, email |-> 26, upload |-> 27, miscData |-> 28,
     heartbeat |-> 29]

clusterNet ==
    [count |-> 40, playerData |-> 41, miscData |-> 42, type |-> 43,
     serverData |-> 44, queue |-> 45, leave |-> 46]

serverIndex == 0
tcpPort == 63456

\* ------------------------------------------------------------------ state
VARIABLES
    playerCount,     \* rolling id counter
    idToSocket,      \* registry: session id -> socket (slot number)
    socketToData,    \* store: uid -> player record
    unifiedCluster,  \* cluster mode flag
    serverSocket,    \* -1, or the parent socket (slot 0) given to createServer
    socks,           \* the socket objects: status, isWS, uid, id
    sent,            \* transport writes made by the last handler, in order
    fault,           \* "none", or what stopped the process
    dispatched,      \* sub-packets the last processPacket call dispatched
    offset,          \* _offset when the last processPacket call ended
    cnt,             \* history: packets written to / identities taken from each socket
    nodes,           \* cached cluster view (a const object in the source)
    negotiated,      \* history: what the first cluster type packet declared
    lastOp           \* the handler that ran last, with its arguments

vars == <<playerCount, idToSocket, socketToData, unifiedCluster, serverSocket,
          socks, sent, fault, dispatched, offset, cnt, nodes, negotiated,
          lastOp>>

Parent == 0
Conn == 1 .. MaxConn
Sockets == 0 .. MaxConn

None == <<>>
Some(v) == <<v>>

\* uuidv4(): a fresh identifier, "u1", "u2", ...; no client presents it.
uuidv4(c) == <<117, 48 + c>>

\* `throws` is the state of the transport under a socket object: whether its
\* write / send call raises an exception.
FreeSocket ==
    [status |-> "free", isWS |-> FALSE, uid |-> <<>>, id |-> -1,
     throws |-> FALSE]
ParentSocket ==
    [status |-> "open", isWS |-> FALSE, uid |-> <<>>, id |-> -1,
     throws |-> FALSE]

NoOp == [op |-> "init", sock |-> -1, data |-> <<>>, again |-> FALSE]

Min(a, b) == IF a < b THEN a ELSE b

\* ------------------------------------------------------------- wire codec
\* Buffer offsets are 0-based as in the source; sequences are 1-based.
CanRead(data, off, n) == off >= 0 /\ off + n <= Len(data)

readUInt8(data, off) == data[off + 1]

readInt16LE(data, off) ==
    LET v == data[off + 1] + 256 * data[off + 2]
    IN  IF v >= 32768 THEN v - 65536 ELSE v

writeUInt8(v) == <<v>>

writeUInt16LE(v) == <<v % 256, v \div 256>>

writeInt16LE(v) ==
    LET u == (v + 65536) % 65536 IN <<u % 256, u \div 256>>

\* Range checks of the Buffer write methods (a failed check throws).
FitsUInt8(v) == v >= 0 /\ v <= 255
FitsUInt16(v) == v >= 0 /\ v <= 65535

RECURSIVE RemoveAll(_, _)
RemoveAll(s, b) ==
    IF s = <<>> THEN <<>>
    ELSE IF Head(s) = b THEN RemoveAll(Tail(s), b)
    ELSE <<Head(s)>> \o RemoveAll(Tail(s), b)

RECURSIVE RemoveFirst(_, _)
RemoveFirst(s, b) ==
    IF s = <<>> THEN <<>>
    ELSE IF Head(s) = b THEN Tail(s)
    ELSE <<Head(s)>> \o RemoveFirst(Tail(s), b)

\* Buffer.toString("utf-8", ind, end): the range is clamped to the buffer.
BufSlice(data, ind, end) ==
    LET e == Min(end, Len(data))
    IN  IF ind >= Len(data) \/ e <= ind THEN <<>>
        ELSE SubSeq(data, ind + 1, e)

readBufString(str, ind, end) ==
    RemoveFirst(RemoveAll(BufSlice(str, ind, end), 0), 5)

\* An outbound buffer: the bytes written from offset 0 (the rest of the
\* fixed-size buffer is zero), and the object JSON.stringify was handed
\* when the text written is its serialisation.
Packet(bytes) == [buf |-> bytes, json |-> <<>>]
JsonPacket(bytes, obj) == [buf |-> bytes, json |-> <<obj>>]

\* One call of writeToSocket: the target, the buffer, and whether the
\* transport took it (ok) or raised an exception that the catch swallowed.
SendThrows(to) == socks[to].throws

Write(to, pkt) == [to |-> to, pkt |-> pkt, ok |-> ~SendThrows(to)]

\* -------------------------------------------------------------- registry
RegisteredIds == DOMAIN idToSocket

RECURSIVE SortedSeq(_)
SortedSeq(S) ==
    IF S = {} THEN <<>>
    ELSE LET m == CHOOSE x \in S : \A y \in S : x <= y
         IN  <<m>> \o SortedSeq(S \ {m})

\* Object.values(reg): integer keys are visited in ascending order.
ObjectValues(reg) ==
    LET ids == SortedSeq(DOMAIN reg)
    IN  [i \in 1 .. Len(ids) |-> reg[ids[i]]]

\* The sockets of `reg` whose id differs from socket `s`'s, in visiting order.
PeersOfMutNoFilter(reg, sk, s) == ObjectValues(reg)

PeersOf(reg, sk, s) ==
    SelectSeq(ObjectValues(reg), LAMBDA t : sk[t].id # sk[s].id)

Remove(f, k) == [x \in (DOMAIN f) \ {k} |-> f[x]]

Put(f, k, v) == [x \in (DOMAIN f) \cup {k} |-> IF x = k THEN v ELSE f[x]]

\* ------------------------------------------------------------- counters
Sat(n) == Min(n, CountCap)

NumSent(log, r, type) ==
    Cardinality({i \in 1 .. Len(log) :
                    log[i].to = r /\ log[i].pkt.buf[1] = type})

NumDispatched(disp, type) ==
    Cardinality({i \in 1 .. Len(disp) : disp[i].type = type})

\* The counts after a handler that wrote `log` and dispatched `disp` for
\* socket `who`: packets written to each socket, identity packets taken from it.
Tally(c, log, disp, who) ==
    [r \in Sockets |->
        [assign    |-> Sat(c[r].assign + NumSent(log, r, serverNet.assign)),
         playerObj |-> Sat(c[r].playerObj + NumSent(log, r, serverNet.playerObj)),
         ids       |-> IF r = who
                       THEN Sat(c[r].ids + NumDispatched(disp, clientNet.ID))
                       ELSE c[r].ids]]

ZeroCnt == [assign |-> 0, playerObj |-> 0, ids |-> 0]

\* --------------------------------------------------------- initial state
Init ==
    /\ playerCount = 0
    /\ idToSocket = <<>>
    /\ socketToData = <<>>
    /\ unifiedCluster = FALSE
    /\ serverSocket \in {Parent, -1}
    /\ socks = [s \in Sockets |->
                  IF s = Parent /\ serverSocket = Parent THEN ParentSocket
                  ELSE FreeSocket]
    /\ sent = <<>>
    /\ fault = "none"
    /\ dispatched = <<>>
    /\ offset = 0
    /\ cnt = [s \in Sockets |-> ZeroCnt]
    /\ nodes = <<>>
    /\ negotiated = None
    /\ lastOp = NoOp

\* ------------------------------------------------------------- serverCode
\* A new transport connection is handed the lowest free socket slot.
NewSlot(c) ==
    /\ socks[c].status = "free"
    /\ \A b \in Conn : b < c => socks[b].status # "free"

NextId == playerCount + serverIndex * 256

NextPlayerCount == (playerCount + 1) % 256

serverCode(c, isWS) ==
    /\ fault = "none"
    /\ NewSlot(c)
    /\ LET sock == [status |-> "open", isWS |-> isWS, uid |-> uuidv4(c),
                    id |-> NextId, throws |-> FALSE]
           reg  == Put(idToSocket, sock.id, c)
           log  == <<Write(c, Packet(writeUInt8(serverNet.assign)
                                     \o writeUInt16LE(sock.id) \o sock.uid))>>
                   \o (IF serverSocket # -1
                       THEN <<Write(serverSocket,
                                Packet(writeUInt8(clusterNet.count)
                                       \o writeUInt8(Cardinality(DOMAIN reg))))>>
                       ELSE <<>>)
       IN  /\ socks' = [socks EXCEPT ![c] = sock]
           /\ playerCount' = NextPlayerCount
           /\ idToSocket' = reg
           /\ sent' = log
    /\ dispatched' = <<>>
    /\ offset' = 0
    /\ lastOp' = [op |-> "connect", sock |-> c, data |-> <<>>, again |-> FALSE]
    /\ UNCHANGED <<socketToData, unifiedCluster, serverSocket, fault, nodes,
                   negotiated>>

\* ------------------------------------------------------- playerDisconnect
\* The writes of one teardown of socket s under registry `reg` (s removed).
DisconnectWrites(reg, s) ==
    LET leavePkt == Packet(writeUInt8(serverNet.leave)
                           \o writeUInt16LE(socks[s].id))
        rest == ObjectValues(reg)
    IN  [i \in 1 .. Len(rest) |-> Write(rest[i], leavePkt)]
        \o (IF serverSocket # -1 THEN <<Write(serverSocket, leavePkt)>>
            ELSE <<>>)

\* The body of playerDisconnect(socket, serverSocket); `status` is what the
\* transport event leaves the socket in.
playerDisconnect(s, status, op) ==
    LET reg == Remove(idToSocket, socks[s].id)
        log == DisconnectWrites(reg, s)
    IN  /\ idToSocket' = reg
        /\ sent' = log
        /\ socketToData' = Remove(socketToData, socks[s].uid)
        /\ socks' = [socks EXCEPT ![s] =
                       IF status = "free" THEN FreeSocket
                       ELSE [@ EXCEPT !.status = status]]
        /\ dispatched' = <<>>
        /\ offset' = 0
        /\ lastOp' = [op |-> op, sock |-> s, data |-> <<>>,
                      again |-> socks[s].status = "errored"]
        /\ UNCHANGED <<playerCount, unifiedCluster, serverSocket, fault, nodes,
                       negotiated>>

\* socket.on("error"): a stream socket fails; its "close" event follows.
SocketError(c) ==
    /\ fault = "none"
    /\ socks[c].status = "open"
    /\ ~socks[c].isWS
    /\ playerDisconnect(c, "errored", "error")

\* socket.on("close") / ws.on("close"): the last event of a socket.
SocketClose(c) ==
    /\ fault = "none"
    /\ socks[c].status \in {"open", "errored"}
    /\ playerDisconnect(c, "free", "close")

\* ------------------------------------------------------------ JSON.parse
\* JSON.parse on the documents clients of the model send: an object with the
\* single member "uid" (a string without quotes or escapes) parses to the
\* player record; the other texts the model sends are not JSON and throw.
DocPrefix == <<123, 34, 117, 105, 100, 34, 58, 34>>
DocSuffix == <<34, 125>>

Doc(uid) == DocPrefix \o uid \o DocSuffix

IsDoc(str) ==
    /\ Len(str) >= Len(DocPrefix) + Len(DocSuffix)
    /\ SubSeq(str, 1, Len(DocPrefix)) = DocPrefix
    /\ SubSeq(str, Len(str) - 1, Len(str)) = DocSuffix
    /\ \A i \in Len(DocPrefix) + 1 .. Len(str) - 2 : str[i] \notin {34, 92}

JSONparse(str) ==
    IF IsDoc(str)
    THEN [ok |-> TRUE,
          val |-> [uid |-> SubSeq(str, Len(DocPrefix) + 1, Len(str) - 2),
                   pos |-> None, myRoom |-> None, name |-> None,
                   outfit |-> None]]
    ELSE [ok |-> FALSE, val |-> <<>>]

\* ------------------------------------------------------ handler machinery
\* What a handler works on while it runs: the socket objects, the store, the
\* writes made so far, the exception raised (if any) and the parse position.
Machine ==
    [socks |-> socks, store |-> socketToData, sent |-> <<>>, fault |-> "none",
     dispatched |-> <<>>, offset |-> 0]

Throw(m, e) == [m EXCEPT !.fault = e]

\* writeToSocket(socket, dataBuf): one transport write, inside try / catch.
writeToSocketMutNoCatch(m, to, pkt) ==
    IF SendThrows(to) THEN Throw(m, "Error")
    ELSE [m EXCEPT !.sent = Append(@, Write(to, pkt))]

writeToSocket(m, to, pkt) == [m EXCEPT !.sent = Append(@, Write(to, pkt))]

RECURSIVE writeEach(_, _, _)
writeEach(m, targets, pkt) ==
    IF targets = <<>> THEN m
    ELSE writeEach(writeToSocket(m, Head(targets), pkt), Tail(targets), pkt)

\* sendPlayerData(_type, _data, _fromSocketID, _toSocket); _data is a string
\* or the position array.
StrData(str) == [isString |-> TRUE, v |-> str]
ArrData(arr) == [isString |-> FALSE, v |-> arr]

sendPlayerData(m, type, d, fromId, to) ==
    IF ~FitsUInt16(fromId) THEN Throw(m, "RangeError")
    ELSE writeToSocket(m, to,
            Packet(writeUInt8(type) \o writeUInt16LE(fromId)
                   \o (IF d.isString THEN d.v
                       ELSE writeInt16LE(d.v[1]) \o writeInt16LE(d.v[2])
                            \o writeUInt8(d.v[3]))))

RECURSIVE sendEach(_, _, _, _, _)
sendEach(m, type, d, fromId, targets) ==
    IF targets = <<>> \/ m.fault # "none" THEN m
    ELSE sendEach(sendPlayerData(m, type, d, fromId, Head(targets)),
                  type, d, fromId, Tail(targets))

\* ------------------------------------------------------ forwardPlayerData
ForwardToParent(serverSock) == unifiedCluster /\ serverSock # -1

StorePos(d) == Some(d)

forwardPlayerData(m, data, s, dataOffset, serverSock, end) ==
    LET type == readUInt8(data, dataOffset)
        uid  == m.socks[s].uid
        has  == uid \in DOMAIN m.store
        fan(mm, d) ==
            LET m1 == sendEach(mm, type, d, mm.socks[s].id,
                               PeersOf(idToSocket, mm.socks, s))
            IN  IF m1.fault = "none" /\ ForwardToParent(serverSock)
                THEN sendPlayerData(m1, type, d, mm.socks[s].id, serverSock)
                ELSE m1
    IN  IF type = clientNet.pos
        THEN IF ~(CanRead(data, 1 + dataOffset, 2)
                  /\ CanRead(data, 3 + dataOffset, 2)
                  /\ CanRead(data, 5 + dataOffset, 1))
             THEN Throw(m, "RangeError")
             ELSE LET d == <<readInt16LE(data, 1 + dataOffset),
                             readInt16LE(data, 3 + dataOffset),
                             readUInt8(data, 5 + dataOffset)>>
                  IN  IF ~has THEN Throw(m, "TypeError")
                      ELSE fan([m EXCEPT !.store[uid].pos = StorePos(d)],
                               ArrData(d))
        ELSE LET str == readBufString(data, 1 + dataOffset, end)
             IN  IF type \in {clientNet.myRoom, clientNet.name, clientNet.outfit}
                 THEN IF ~has THEN Throw(m, "TypeError")
                      ELSE fan(
                        IF type = clientNet.myRoom
                        THEN [m EXCEPT !.store[uid].myRoom = Some(str)]
                        ELSE IF type = clientNet.name
                        THEN [m EXCEPT !.store[uid].name = Some(str)]
                        ELSE [m EXCEPT !.store[uid].outfit = Some(str)],
                        StrData(str))
                 ELSE fan(m, StrData(str))

\* ----------------------------------------------------------- processPacket
RECURSIVE Dedup(_, _)
Dedup(uid, keys) == IF uid \in keys THEN Dedup(uid \o <<102>>, keys) ELSE uid

\* The second loop of the identity case: the sender is written one playerObj
\* per peer; a peer without a record makes JSON.stringify return undefined,
\* which Buffer.write rejects.
RECURSIVE replyPeers(_, _, _)
replyPeers(m, s, peers) ==
    IF peers = <<>> \/ m.fault # "none" THEN m
    ELSE LET t == Head(peers)
         IN  IF m.socks[t].uid \notin DOMAIN m.store
             THEN Throw(m, "TypeError")
             ELSE replyPeers(
                    writeToSocket(m, s,
                        JsonPacket(writeUInt8(serverNet.playerObj)
                                   \o writeUInt8(m.socks[t].id),
                                   m.store[m.socks[t].uid])),
                    s, Tail(peers))

caseID(m, s, data, off, end) ==
    LET str == readBufString(data, 3 + off, end)
        parsed == JSONparse(str)
    IN  IF ~parsed.ok THEN Throw(m, "SyntaxError")
        ELSE LET uid == Dedup(parsed.val.uid, DOMAIN m.store)
                 rec == [parsed.val EXCEPT !.uid = uid]
                 m1  == [m EXCEPT !.socks[s].uid = uid,
                                  !.store = Put(@, uid, rec)]
                 peers == PeersOf(idToSocket, m1.socks, s)
             IN  IF ~FitsUInt8(m1.socks[s].id) THEN Throw(m1, "RangeError")
                 ELSE replyPeers(
                        writeEach(m1, peers,
                            Packet(writeUInt8(serverNet.playerObj)
                                   \o writeUInt8(m1.socks[s].id) \o str)),
                        s, peers)

caseMessage(m, s, data, off, end) ==
    LET text == readBufString(data, 3 + off, end)
    IN  writeEach(m, PeersOf(idToSocket, m.socks, s),
                  Packet(writeUInt8(serverNet.message) \o text))

\* socketToName and transporter are not defined where the case reads them.
caseEmail(m) == Throw(m, "ReferenceError")

\* ref is declared inside the try block of the Firebase set-up only.
caseUpload(m, data, off, end) ==
    IF ~JSONparse(readBufString(data, 3 + off, end)).ok
    THEN Throw(m, "SyntaxError")
    ELSE Throw(m, "ReferenceError")

caseMiscData(m, data, off, end) ==
    IF ~JSONparse(readBufString(data, 3 + off, end)).ok
    THEN Throw(m, "SyntaxError")
    ELSE m

\* isWS is a parameter of serverCode, not a name processPacket can read:
\* the test of line 257 throws before the socket is closed or anything is
\* forwarded.
caseLeave(m) == Throw(m, "ReferenceError")

caseHeartbeat(m, s) ==
    writeToSocket(m, s, Packet(writeUInt8(serverNet.heartbeat)))

dispatch(m, s, data, type, off, end, serverSock) ==
    IF type = clientNet.ID THEN caseID(m, s, data, off, end)
    ELSE IF type = clientNet.message THEN caseMessage(m, s, data, off, end)
    ELSE IF type = clientNet.email THEN caseEmail(m)
    ELSE IF type = clientNet.upload THEN caseUpload(m, data, off, end)
    ELSE IF type = clientNet.miscData THEN caseMiscData(m, data, off, end)
    ELSE IF type = clusterNet.leave THEN caseLeave(m)
    ELSE IF type = clientNet.heartbeat THEN caseHeartbeat(m, s)
    ELSE forwardPlayerData(m, data, s, 2 + off, serverSock, end)

\* The while loop of processPacket.  `visited` holds the offsets already
\* parsed: the buffer never changes, so coming back to one repeats for ever.
RECURSIVE parseLoop(_, _, _, _, _)
parseLoop(m, s, data, serverSock, visited) ==
    IF m.fault # "none" \/ ~(m.offset < Len(data)) THEN m
    ELSE IF m.offset \in visited THEN Throw(m, "hung")
    ELSE IF ~CanRead(data, m.offset, 2) \/ ~CanRead(data, 2 + m.offset, 1)
    THEN Throw(m, "RangeError")
    ELSE LET end  == m.offset + readInt16LE(data, m.offset)
             type == readUInt8(data, 2 + m.offset)
             m1 == [m EXCEPT !.dispatched =
                        Append(@, [type |-> type, from |-> 3 + m.offset,
                                   to |-> end])]
             m2 == dispatch(m1, s, data, type, m.offset, end, serverSock)
         IN  parseLoop(IF m2.fault = "none" THEN [m2 EXCEPT !.offset = end]
                       ELSE m2,
                       s, data, serverSock, visited \cup {m.offset})

processPacket(s, data, serverSock) ==
    parseLoop(Machine, s, data, serverSock, {})

\* The state a handler leaves behind.
Commit(m, op) ==
    /\ socks' = m.socks
    /\ socketToData' = m.store
    /\ sent' = m.sent
    /\ fault' = m.fault
    /\ dispatched' = m.dispatched
    /\ offset' = m.offset
    /\ lastOp' = op

\* socket.on("data" / "message"): a read arrives from client socket c.
SocketData(c, data) ==
    /\ fault = "none"
    /\ socks[c].status = "open"
    /\ Commit(processPacket(c, data, serverSocket),
              [op |-> "data", sock |-> c, data |-> data, again |-> FALSE])
    /\ UNCHANGED <<playerCount, idToSocket, unifiedCluster, serverSocket, nodes,
                   negotiated>>

\* The transport under socket s starts raising on write / send (the peer is
\* gone, the message socket is not open): an event of the environment.
TransportFails(s) ==
    /\ fault = "none"
    /\ socks[s].status = "open"
    /\ ~socks[s].throws
    /\ socks' = [socks EXCEPT ![s].throws = TRUE]
    /\ sent' = <<>>
    /\ dispatched' = <<>>
    /\ offset' = 0
    /\ lastOp' = [op |-> "sendFails", sock |-> s, data |-> <<>>, again |-> FALSE]
    /\ UNCHANGED <<playerCount, idToSocket, socketToData, unifiedCluster,
                   serverSocket, fault, nodes, negotiated>>

\* ------------------------------------------------- parent socket handler
parentData(data) ==
    LET m == Machine
        _len == Len(data)
        type == readUInt8(data, 0)
    IN  IF type = clusterNet.miscData
        THEN IF ~JSONparse(readBufString(data, 1, _len)).ok
             THEN Throw(m, "SyntaxError") ELSE m
        ELSE IF type = clusterNet.type
        THEN IF ~CanRead(data, 1, 1) THEN Throw(m, "RangeError")
             ELSE writeToSocket(m, Parent,
                    Packet(writeUInt8(clusterNet.type) \o writeUInt16LE(tcpPort)))
        ELSE IF type = clusterNet.serverData
        THEN \* nodes is a const: the assignment throws once the text parsed
             IF ~JSONparse(readBufString(data, 1, _len)).ok
             THEN Throw(m, "SyntaxError") ELSE Throw(m, "TypeError")
        ELSE processPacket(Parent, data, -1)

UnifiedAfter(data) ==
    IF /\ readUInt8(data, 0) = clusterNet.type
       /\ CanRead(data, 1, 1)
       /\ readUInt8(data, 1) = 1
    THEN TRUE ELSE unifiedCluster

\* The mode the first cluster type packet read so far declared.
NegotiatedAfter(data) ==
    IF /\ negotiated = None
       /\ readUInt8(data, 0) = clusterNet.type
       /\ CanRead(data, 1, 1)
    THEN Some(readUInt8(data, 1) = 1) ELSE negotiated

ParentData(data) ==
    /\ fault = "none"
    /\ serverSocket = Parent
    /\ data # <<>>
    /\ Commit(parentData(data),
              [op |-> "parentData", sock |-> Parent, data |-> data,
               again |-> FALSE])
    /\ unifiedCluster' = UnifiedAfter(data)
    /\ negotiated' = NegotiatedAfter(data)
    /\ UNCHANGED <<playerCount, idToSocket, serverSocket, nodes>>

\* ------------------------------------------------------- inputs of the model
\* One inbound sub-packet: [frameLength:int16-LE][type][payload].
Frame(type, payload) ==
    writeInt16LE(3 + Len(payload)) \o writeUInt8(type) \o payload

p1 == <<112, 49>>
p2 == <<112, 50>>
BadJson == <<123, 34>>
Hi == <<104, 105>>

PosA == writeInt16LE(100) \o writeInt16LE(-50) \o writeUInt8(2)
PosB == writeInt16LE(-1) \o writeInt16LE(300) \o writeUInt8(255)

ChatFrame == Frame(clientNet.message, Hi)

IdFrames == {Frame(clientNet.ID, Doc(p1)), Frame(clientNet.ID, Doc(p2))}

PosFrames == {Frame(clientNet.pos, PosA), Frame(clientNet.pos, PosB)}

FieldFrames ==
    PosFrames \cup
    {Frame(clientNet.myRoom, <<114>>), Frame(clientNet.outfit, <<111>>),
     Frame(clientNet.name, <<110>>)}

\* The reads client sockets deliver in Spec: one sub-packet each.
ClientReads ==
    {Frame(clientNet.ID, Doc(p1)), Frame(clientNet.ID, BadJson), ChatFrame,
     Frame(clientNet.email, <<98>>), Frame(clientNet.upload, Doc(p1)),
     Frame(clientNet.miscData, Doc(p1)), Frame(clientNet.miscData, BadJson),
     Frame(clusterNet.leave, <<>>), Frame(clientNet.heartbeat, <<>>),
     Frame(99, <<120>>)}

\* The reads the parent socket delivers: cluster packets, and client
\* sub-packets another node relays.
ParentReads ==
    {<<clusterNet.type, 1>>, <<clusterNet.type, 0>>,
     <<clusterNet.miscData>> \o Doc(p1), <<clusterNet.serverData>> \o Doc(p1),
     ChatFrame, Frame(clientNet.heartbeat, <<>>),
     Frame(clientNet.pos, PosA), Frame(clientNet.ID, Doc(p1))}

\* Identity packets stop once the store holds MaxStore records.
RECURSIVE HasType(_, _, _)
HasType(data, off, type) ==
    IF ~CanRead(data, off, 3) THEN FALSE
    ELSE IF readUInt8(data, 2 + off) = type THEN TRUE
    ELSE IF readInt16LE(data, off) < 3 THEN FALSE
    ELSE HasType(data, off + readInt16LE(data, off), type)

StoreRoom(data) ==
    HasType(data, 0, clientNet.ID) => Cardinality(DOMAIN socketToData) < MaxStore

Accept(c, isWS) == playerCount < ConnectCap /\ serverCode(c, isWS)

Read(c, data) == StoreRoom(data) /\ SocketData(c, data)

ParentRead(data) == StoreRoom(data) /\ ParentData(data)

\* cnt is the history variable of SpecSync: the other specifications keep
\* no packet counts.
Next ==
    \/ \E c \in Conn, ws \in BOOLEAN : Accept(c, ws) /\ UNCHANGED cnt
    \/ \E c \in Conn : SocketError(c) /\ UNCHANGED cnt
    \/ \E c \in Conn : SocketClose(c) /\ UNCHANGED cnt
    \/ \E c \in Conn, data \in ClientReads : Read(c, data) /\ UNCHANGED cnt
    \/ \E data \in ParentReads : ParentRead(data) /\ UNCHANGED cnt

Spec == Init /\ [][Next]_vars

\* --------------------------------------------------------- position updates
\* Sessions that identify themselves and move; the parent may declare
\* unified mode.
FieldReads == {Frame(clientNet.ID, Doc(p1)), ChatFrame} \cup PosFrames

NextField ==
    \/ \E c \in Conn, ws \in BOOLEAN : Accept(c, ws) /\ UNCHANGED cnt
    \/ \E c \in Conn : SocketError(c) /\ UNCHANGED cnt
    \/ \E c \in Conn : SocketClose(c) /\ UNCHANGED cnt
    \/ \E c \in Conn, data \in FieldReads : Read(c, data) /\ UNCHANGED cnt
    \/ ParentRead(<<clusterNet.type, 1>>) /\ UNCHANGED cnt

SpecField == Init /\ [][NextField]_vars

\* ------------------------------------------------------------ field updates
\* Stream sessions sending every kind of field update.
UpdateReads == {Frame(clientNet.ID, Doc(p1))} \cup FieldFrames

NextUpdate ==
    \/ \E c \in Conn : Accept(c, FALSE) /\ UNCHANGED cnt
    \/ \E c \in Conn : SocketClose(c) /\ UNCHANGED cnt
    \/ \E c \in Conn, data \in UpdateReads : Read(c, data) /\ UNCHANGED cnt
    \/ \E data \in {<<clusterNet.type, 1>>, <<clusterNet.type, 0>>} :
          ParentRead(data) /\ UNCHANGED cnt

SpecUpdate == Init /\ [][NextUpdate]_vars

\* ------------------------------------------------------------ identity sync
\* Connects and identity packets only, with the packets written to each
\* socket counted.
Counted == cnt' = Tally(cnt, sent', dispatched', lastOp'.sock)

NextSync ==
    \/ \E c \in Conn, ws \in BOOLEAN : Accept(c, ws) /\ Counted
    \/ \E c \in Conn, data \in IdFrames : Read(c, data) /\ Counted

SpecSync == Init /\ [][NextSync]_vars

\* ------------------------------------------------------------------ framing
\* Reads that hold several sub-packets back to back.
MaxSub == 2

SubFrames ==
    {ChatFrame, Frame(clientNet.heartbeat, <<>>), Frame(99, <<120>>),
     Frame(clientNet.ID, Doc(p1)), Frame(clientNet.ID, BadJson),
     Frame(clientNet.miscData, BadJson), Frame(clientNet.upload, BadJson),
     Frame(clientNet.email, <<98>>), Frame(clusterNet.leave, <<>>)}

RECURSIVE Concat(_)
Concat(fs) == IF fs = <<>> THEN <<>> ELSE Head(fs) \o Concat(Tail(fs))

FrameSeqs == UNION {[1 .. k -> SubFrames] : k \in 1 .. MaxSub}

NextFrame ==
    \/ \E c \in Conn : Accept(c, FALSE) /\ UNCHANGED cnt
    \/ \E c \in Conn, fs \in FrameSeqs : Read(c, Concat(fs)) /\ UNCHANGED cnt

SpecFrame == Init /\ [][NextFrame]_vars

\* ------------------------------------------------------------ failed sends
\* Stream sessions that identify themselves, chat and move while transports
\* fail.
SendReads ==
    {Frame(clientNet.ID, Doc(p1)), ChatFrame, Frame(clientNet.pos, PosA)}

NextSend ==
    \/ \E c \in Conn :
          playerCount < MaxConn /\ serverCode(c, FALSE) /\ UNCHANGED cnt
    \/ \E s \in Sockets : TransportFails(s) /\ UNCHANGED cnt
    \/ \E c \in Conn : SocketClose(c) /\ UNCHANGED cnt
    \/ \E c \in Conn, data \in SendReads : Read(c, data) /\ UNCHANGED cnt

SpecSend == Init /\ [][NextSend]_vars

\* ------------------------------------------------------------ frame lengths
\* Reads whose frameLength field is zero, negative, or larger than the bytes
\* that remain, next to well-formed ones.  The type byte is heartbeat or chat.
ZeroLen == <<0, 0, clientNet.heartbeat>>
NegLen == writeInt16LE(-1) \o <<clientNet.heartbeat>>
LongLen == writeInt16LE(9) \o <<clientNet.heartbeat>>
BackLen == writeInt16LE(-3) \o <<clientNet.heartbeat>>

LoopReads ==
    {ZeroLen, NegLen, LongLen,
     Frame(clientNet.heartbeat, <<>>),
     Frame(clientNet.heartbeat, <<>>) \o ZeroLen,
     Frame(clientNet.heartbeat, <<>>) \o BackLen,
     Frame(clientNet.heartbeat, <<>>) \o LongLen,
     ChatFrame \o Frame(clientNet.heartbeat, <<>>)}

NextLoop ==
    \/ \E c \in Conn, ws \in BOOLEAN : Accept(c, ws) /\ UNCHANGED cnt
    \/ \E c \in Conn : SocketClose(c) /\ UNCHANGED cnt
    \/ \E c \in Conn, data \in LoopReads : Read(c, data) /\ UNCHANGED cnt

SpecLoop == Init /\ [][NextLoop]_vars

\* ----------------------------------------------------------- id rollover
\* Connects and disconnects of stream clients only, without a cap on the
\* number of connections accepted: the counter runs through all 256 values.
WrapSockets == {1, 2}

NextWrap ==
    \/ \E c \in WrapSockets : serverCode(c, FALSE) /\ UNCHANGED cnt
    \/ \E c \in WrapSockets : SocketClose(c) /\ UNCHANGED cnt

SpecWrap == Init /\ [][NextWrap]_vars

\* ------------------------------------------------- id rollover with a player
\* The first stream client stays connected, identifies itself and moves,
\* while the other socket slot connects and disconnects; no cap on the number
\* of connections accepted.
ReuseReads == {Frame(clientNet.ID, Doc(p1)), Frame(clientNet.pos, PosA)}

NextReuse ==
    \/ \E c \in WrapSockets : serverCode(c, FALSE) /\ UNCHANGED cnt
    \/ \E c \in WrapSockets \ {1} :
          SocketClose(c) /\ UNCHANGED cnt
    \/ \E data \in ReuseReads : Read(1, data) /\ UNCHANGED cnt

SpecReuse == Init /\ [][NextReuse]_vars

\* ================================================================== claims
Live(c) == socks[c].status = "open"

Registered(r) == \E id \in DOMAIN idToSocket : idToSocket[id] = r

WritesTo(log, r) == Cardinality({i \in 1 .. Len(log) : log[i].to = r})

LastData(c, data) ==
    lastOp.op = "data" /\ lastOp.sock = c /\ lastOp.data = data

\* C1: while fewer than 256 connections are live at once, no two live
\* connections have the same sessionId, and every live connection is the
\* value registered under its own sessionId in idToSocket.
C1_SessionIdsUnique ==
    Cardinality({c \in Conn : Live(c)}) < 256 =>
        /\ \A a, b \in Conn :
              (a # b /\ Live(a) /\ Live(b)) => socks[a].id # socks[b].id
        /\ \A a \in Conn :
              Live(a) => /\ socks[a].id \in DOMAIN idToSocket
                         /\ idToSocket[socks[a].id] = a

\* C2: the teardown of a connection is idempotent: when playerDisconnect
\* runs again for a connection it already tore down (the close event that
\* follows an error event), it writes nothing to any session or to the
\* parent, and it does not throw.
C2_TeardownOnce ==
    (lastOp.op \in {"error", "close"} /\ lastOp.again) =>
        (sent = <<>> /\ fault = "none")

\* C5: a chat packet (type 25) from a registered session S is written
\* exactly once, as a chat packet with the same text, to every other
\* registered session, and never to S.
C5_BroadcastExclusion ==
    \A s \in Conn :
        (LastData(s, ChatFrame) /\ Registered(s)) =>
            /\ fault = "none"
            /\ \A i \in 1 .. Len(sent) :
                  sent[i].pkt = Packet(<<serverNet.message>> \o Hi)
            /\ \A r \in Sockets :
                  WritesTo(sent, r) =
                     IF r \in Conn /\ r # s /\ Registered(r) THEN 1 ELSE 0

C5_Witness ==
    \E s \in Conn :
        /\ LastData(s, ChatFrame)
        /\ Registered(s)
        /\ \E r \in Conn : r # s /\ Registered(r) /\ WritesTo(sent, r) = 1

\* C3: after N connects and N identity packets, one per session and with
\* pairwise distinct identities (no disconnects), in any interleaving, every
\* identity packet is processed, the store holds exactly N records, and each
\* session was written exactly one assign and exactly N-1 playerObj packets.
OnePerSession ==
    /\ \A c \in Conn : Live(c) => cnt[c].ids <= 1
    /\ \A a, b \in Conn :
          (a # b /\ Live(a) /\ Live(b) /\ cnt[a].ids = 1 /\ cnt[b].ids = 1)
             => {socks[a].uid, socks[b].uid} = {p1, p2}

C3_IdentitySync ==
    LET S == {c \in Conn : Live(c)}
        N == Cardinality(S)
    IN  OnePerSession =>
           /\ fault = "none"
           /\ (N >= 1 /\ \A c \in S : cnt[c].ids = 1) =>
                 /\ Cardinality(DOMAIN socketToData) = N
                 /\ \A c \in S : cnt[c].assign = 1 /\ cnt[c].playerObj = N - 1

\* C4: when two live sessions each send an identity packet with the value
\* "p1", in either order, both packets are processed and the store ends with
\* the two records "p1" and "p1f".
C4_DuplicateIdentity ==
    \A a, b \in Conn :
        (a # b /\ Live(a) /\ Live(b)
           /\ LastData(a, Frame(clientNet.ID, Doc(p1))) /\ cnt[a].ids = 1)
        => /\ fault = "none"
           /\ cnt[b].ids = 1 /\ socks[b].uid \in {p1, p1 \o <<102>>}
                 => /\ DOMAIN socketToData = {p1, p1 \o <<102>>}
                    /\ socks[a].uid # socks[b].uid

\* C6: a pos packet (type 21) carrying (x, y, facing) from a session S that
\* has a PlayerState record sets that record's position to exactly
\* (x, y, facing), changes no other field of it and no other record, and
\* writes one packet carrying S's sessionId and the same tuple to every other
\* registered session, none to S.
TupleOf(data) ==
    IF data = Frame(clientNet.pos, PosA) THEN <<100, -50, 2>>
    ELSE <<-1, 300, 255>>

CarriesPos(pkt, id, t) ==
    /\ Len(pkt.buf) = 8
    /\ readUInt8(pkt.buf, 1) + 256 * readUInt8(pkt.buf, 2) = id
    /\ readInt16LE(pkt.buf, 3) = t[1]
    /\ readInt16LE(pkt.buf, 5) = t[2]
    /\ readUInt8(pkt.buf, 7) = t[3]

C6_Step ==
    \A s \in Conn :
        (/\ lastOp'.op = "data" /\ lastOp'.sock = s
         /\ lastOp'.data \in PosFrames
         /\ socks[s].uid \in DOMAIN socketToData)
        => LET uid == socks[s].uid
               t == TupleOf(lastOp'.data)
           IN  /\ fault' = "none"
               /\ DOMAIN socketToData' = DOMAIN socketToData
               /\ socketToData'[uid] = [socketToData[uid] EXCEPT !.pos = <<t>>]
               /\ \A k \in DOMAIN socketToData :
                     k # uid => socketToData'[k] = socketToData[k]
               /\ \A r \in Conn :
                     WritesTo(sent', r) =
                        IF r # s /\ Registered(r) THEN 1 ELSE 0
               /\ \A i \in 1 .. Len(sent') :
                     CarriesPos(sent'[i].pkt, socks[s].id, t)

C6_PositionUpdate == [][C6_Step]_vars

\* C7: every position/room/outfit/name packet received from a client session
\* is written to the parent connection exactly once when unifiedCluster is
\* true and a parent connection exists, and never when unifiedCluster is
\* false.
C7_FieldForwarding ==
    (lastOp.op = "data" /\ lastOp.data \in FieldFrames) =>
        WritesTo(sent, Parent) =
            IF unifiedCluster /\ serverSocket # -1 THEN 1 ELSE 0

\* C8: a leave packet (type 46) from a session is handled, and the parent is
\* written no leave message for it while unifiedCluster is false.
C8_LeaveForwarding ==
    (lastOp.op = "data" /\ lastOp.data = Frame(clusterNet.leave, <<>>)) =>
        /\ fault = "none"
        /\ ~unifiedCluster => WritesTo(sent, Parent) = 0

\* C9: a read made of k well-formed sub-packets laid back to back is
\* dispatched as exactly those k sub-packets, in order, each with its type
\* and its payload range, and the loop stops at the end of the buffer.
RECURSIVE SubPackets(_, _)
SubPackets(data, off) ==
    IF off >= Len(data) THEN <<>>
    ELSE LET n == data[off + 1] + 256 * data[off + 2]
         IN  <<[type |-> data[off + 3], from |-> off + 3, to |-> off + n]>>
             \o SubPackets(data, off + n)

C9_Framing ==
    lastOp.op = "data" =>
        /\ dispatched = SubPackets(lastOp.data, 0)
        /\ offset = Len(lastOp.data)

\* C10: a read in which one sub-packet carries a payload that is not JSON
\* (identity, upload or miscData type) does not stop the dispatcher: every
\* sub-packet of the read is still dispatched.
Malformed ==
    {Frame(clientNet.ID, BadJson), Frame(clientNet.miscData, BadJson),
     Frame(clientNet.upload, BadJson)}

Benign == {ChatFrame, Frame(clientNet.heartbeat, <<>>), Frame(99, <<120>>)}

MalformedReads ==
    {Concat(fs) : fs \in {g \in [1 .. MaxSub -> Malformed \cup Benign] :
                             \E i \in 1 .. MaxSub : g[i] \in Malformed}}

C10_MalformedTolerated ==
    (lastOp.op = "data" /\ lastOp.data \in MalformedReads) =>
        /\ fault = "none"
        /\ Len(dispatched) = MaxSub

\* C11: whatever transports raise on send, a chat, identity or position
\* packet from a registered session S still makes one write call, in registry
\* order, for every other registered session (taken by the transport exactly
\* when it does not raise), a chat raises nothing, and the registry and the
\* store change as they do without the failure: the registry not at all, the
\* store not at all for a chat.  A teardown still makes one leave write call
\* for every session left in the registry and removes only the leaver.
Attempts(log, r) == {i \in 1 .. Len(log) : log[i].to = r}

BroadcastHead(log, s) ==
    LET peers == SelectSeq(ObjectValues(idToSocket), LAMBDA t : t # s)
    IN  /\ Len(log) >= Len(peers)
        /\ \A i \in 1 .. Len(peers) :
              /\ log[i].to = peers[i]
              /\ log[i].ok = ~socks[peers[i]].throws

C11_Step ==
    /\ \A s \in Conn :
          (/\ lastOp'.op = "data" /\ lastOp'.sock = s
           /\ lastOp'.data \in SendReads
           /\ Registered(s)
           /\ lastOp'.data = Frame(clientNet.pos, PosA)
                 => socks[s].uid \in DOMAIN socketToData)
          => /\ BroadcastHead(sent', s)
             /\ idToSocket' = idToSocket
             /\ lastOp'.data = ChatFrame
                   => /\ fault' = "none"
                      /\ socketToData' = socketToData
                      /\ Len(sent') = Cardinality(DOMAIN idToSocket) - 1
             /\ lastOp'.data = Frame(clientNet.pos, PosA) => fault' = "none"
    /\ \A s \in Conn :
          (lastOp'.op \in {"error", "close"} /\ lastOp'.sock = s)
          => /\ fault' = "none"
             /\ idToSocket' = Remove(idToSocket, socks[s].id)
             /\ socketToData' = Remove(socketToData, socks[s].uid)
             /\ \A r \in Conn :
                   Cardinality(Attempts(sent', r)) =
                      IF r # s /\ (\E id \in DOMAIN idToSocket' :
                                      idToSocket'[id] = r)
                      THEN 1 ELSE 0

C11_SendFailureIsolated == [][C11_Step]_vars

\* A chat whose first write call raises and whose second, to the next peer
\* in registry order, is still made and taken.
C11_Witness ==
    \E s \in Conn :
        /\ LastData(s, ChatFrame)
        /\ fault = "none"
        /\ Len(sent) = 2
        /\ ~sent[1].ok /\ sent[2].ok
        /\ sent[1].to # sent[2].to

\* C12: after playerDisconnect has run for a live connection C, C's sessionId
\* is not a key of the registry and C's identity is not a key of the store,
\* every session still registered was written exactly one leave packet with
\* C's sessionId, C was written nothing, and every other connection that was
\* registered and every other record of the store is still there.
RegisteredIn(reg, r) == \E id \in DOMAIN reg : reg[id] = r

C12_Step ==
    \A c \in Conn :
        (/\ lastOp'.op \in {"error", "close"} /\ lastOp'.sock = c
         /\ Live(c))
        => LET leavePkt == Packet(<<serverNet.leave>>
                                  \o writeUInt16LE(socks[c].id))
           IN  /\ socks[c].id \notin DOMAIN idToSocket'
               /\ socks[c].uid \notin DOMAIN socketToData'
               /\ \A r \in Conn :
                     (r # c /\ RegisteredIn(idToSocket', r))
                        => /\ WritesTo(sent', r) = 1
                           /\ \A i \in 1 .. Len(sent') :
                                 sent'[i].to = r => sent'[i].pkt = leavePkt
               /\ WritesTo(sent', c) = 0
               /\ \A r \in Conn :
                     (r # c /\ RegisteredIn(idToSocket, r))
                        => RegisteredIn(idToSocket', r)
               /\ \A k \in DOMAIN socketToData :
                     k # socks[c].uid
                        => k \in DOMAIN socketToData'
                           /\ socketToData'[k] = socketToData[k]

C12_TeardownPostconditions == [][C12_Step]_vars

\* C13: once a cluster type packet (type 43) has been read from the parent,
\* unifiedCluster is true exactly when the first such packet declared unified
\* mode: no later packet changes it.
C13_ModeFixedByFirstType ==
    negotiated # None => unifiedCluster = negotiated[1]

\* C14: an identity packet from session S is answered with an assign packet
\* written to S that carries S's sessionId and the identity stored for S
\* after de-duplication.
C14_IdentityReply ==
    \A s \in Conn :
        (lastOp.op = "data" /\ lastOp.sock = s /\ lastOp.data \in IdFrames)
        => \E i \in 1 .. Len(sent) :
              /\ sent[i].to = s
              /\ sent[i].pkt.buf = <<serverNet.assign>>
                                     \o writeUInt16LE(socks[s].id)
                                     \o socks[s].uid
              /\ socks[s].uid \in DOMAIN socketToData

\* C15: every key of the store is the current identity (socket.uid) of
\* exactly one connection registered in idToSocket; so the store is empty
\* when no connection is registered.
C15_NoOrphanedState ==
    \A k \in DOMAIN socketToData :
        Cardinality({c \in Conn : Registered(c) /\ socks[c].uid = k}) = 1

\* C16: a leave packet (type 46) from a registered session on either kind of
\* transport is handled without an exception, and with unifiedCluster true
\* and a parent connection the bytes received are written unchanged to the
\* parent.
C16_LeaveCloses ==
    \A s \in Conn :
        (/\ LastData(s, Frame(clusterNet.leave, <<>>))
         /\ Registered(s))
        => /\ fault = "none"
           /\ (unifiedCluster /\ serverSocket # -1)
                 => \E i \in 1 .. Len(sent) :
                       sent[i].to = Parent /\ sent[i].pkt.buf = lastOp.data

\* C17: after a serverData packet (type 44) read from the parent, the cached
\* cluster view `nodes` is exactly the value parsed from the packet's payload
\* and no exception was raised.
C17_ServerDataReplace ==
    (/\ lastOp.op = "parentData"
     /\ readUInt8(lastOp.data, 0) = clusterNet.serverData
     /\ IsDoc(readBufString(lastOp.data, 1, Len(lastOp.data))))
    => /\ fault = "none"
       /\ nodes = JSONparse(readBufString(lastOp.data, 1, Len(lastOp.data))).val

\* C18: for every non-empty read, also one whose frameLength field is zero,
\* negative or larger than the remaining bytes, the sub-packet loop ends
\* normally and every iteration started at a larger offset than the one
\* before.
C18_ParseLoopTerminates ==
    (lastOp.op = "data" /\ lastOp.data \in LoopReads)
    => /\ fault = "none"
       /\ offset >= Len(lastOp.data)
       /\ \A i \in 1 .. Len(dispatched) - 1 :
             dispatched[i].from < dispatched[i + 1].from

\* C19: a read from the parent that is run through processPacket (any first
\* byte but the three cluster types handled in place) makes no write to the
\* parent connection, whatever unifiedCluster is.
C19_NoUpwardEcho ==
    (/\ lastOp.op = "parentData"
     /\ readUInt8(lastOp.data, 0) \notin
           {clusterNet.miscData, clusterNet.type, clusterNet.serverData})
    => WritesTo(sent, Parent) = 0

\* C20: a position, room, outfit or name packet from a registered session
\* that has no record in the store is handled without an exception and
\* leaves the store as it was.
C20_Step ==
    \A s \in Conn :
        (/\ lastOp'.op = "data" /\ lastOp'.sock = s
         /\ lastOp'.data \in FieldFrames
         /\ Registered(s)
         /\ socks[s].uid \notin DOMAIN socketToData)
        => /\ fault' = "none"
           /\ socketToData' = socketToData

C20_FieldBeforeIdentity == [][C20_Step]_vars

====
